---- MODULE Spec2Model ----
(***************************************************************************)
(* Model of frontends/wasm/build.py: a script that runs three external     *)
(* tools (cargo build, wasm-bindgen, wasm-opt) one after the other, each   *)
(* with subprocess.run(...).check_returncode(), printing a notice before   *)
(* each of them.                                                           *)
(*                                                                         *)
(* A path is a record [abs, parts]: whether it starts with "/" and its     *)
(* components between the separators.  An environment is a record of the   *)
(* variables of interest.  The event log `log` is a history variable that  *)
(* records, in order, what the script and its children have done.          *)
(***************************************************************************)
EXTENDS Integers, Sequences, FiniteSets

VARIABLES
    file,       \* __file__ of the script
    ambient,    \* the environment the script was started with
    environ,    \* os.environ of the script's process
    root_dir,   \* the module global root_dir
    pc,         \* position of the script: [at, stage]
    stdout,     \* what the script has printed, in order
    calls,      \* the subprocess.run calls made, in order: [args, cwd, env]
    running,    \* stages whose child process is running
    returncode, \* returncode of the CompletedProcess last returned
    exc,        \* the exception in flight, or NoExc
    stderr,     \* tracebacks written by the interpreter
    exit_code,  \* exit status of the script's process, or NotExited
    fs,         \* the files written during the run: path -> stage that wrote it
    log         \* history of events

vars == <<file, ambient, environ, root_dir, pc, stdout, calls, running,
          returncode, exc, stderr, exit_code, fs, log>>

----------------------------------------------------------------------------
(* Bounds *)

MaxDepth == 2      \* depth of the directory that holds the script
MaxStatus == 2     \* largest exit status of a child
MaxSignal == 1     \* largest signal number that kills a child

DirNames == {"proj", "frontend", "."}

Dirs == UNION {[1..n -> DirNames] : n \in 0..MaxDepth}

ScriptFiles == {[abs |-> a, parts |-> d \o <<"build.py">>] : a \in BOOLEAN, d \in Dirs}

Environments == {[RUSTFLAGS |-> f] : f \in {"", "-C opt-level=3"}}

\* a child killed by signal n has returncode -n
ExitStatuses == (0 - MaxSignal)..MaxStatus

OSErrors == {"FileNotFoundError", "PermissionError"}

----------------------------------------------------------------------------
(* Paths: os.path.dirname and os.path.join on POSIX *)

EmptyPath == [abs |-> FALSE, parts |-> <<>>]

\* os.path.dirname: everything before the last separator
dirname(p) ==
    [abs |-> p.abs, parts |-> SubSeq(p.parts, 1, Len(p.parts) - 1)]

\* one step of os.path.join's loop, for a component b that does not start
\* with a separator: path += b when path is empty or ends with "/", and
\* path += "/" + b otherwise; both add the component b
JoinOne(path, b) == [abs |-> path.abs, parts |-> Append(path.parts, b)]

RECURSIVE join(_, _)
join(a, p) ==
    IF p = <<>> THEN a ELSE join(JoinOne(a, Head(p)), Tail(p))

----------------------------------------------------------------------------
(* The three stages *)

Notice(i) ==
    CASE i = 1 -> "now: rustc compilation"
      [] i = 2 -> "now: wasm-bindgen pass"
      [] i = 3 -> "now: wasm-opt pass"

CompileArgs ==
    << "cargo", "build", "--release", "--target", "wasm32-unknown-unknown" >>

\* variant: the bindings are written to another directory
BindArgsOtherDir(root) ==
    << "wasm-bindgen",
       join(root, << "..", "..", "target", "wasm32-unknown-unknown",
                     "release", "gba_rust_wasm.wasm" >>),
       "--out-dir",
       join(root, << "dist" >>),
       "--target",
       "no-modules" >>

\* variant: the compiled binary is looked for below the script's directory
BindArgsBelowRoot(root) ==
    << "wasm-bindgen",
       join(root, << "target", "wasm32-unknown-unknown",
                     "release", "gba_rust_wasm.wasm" >>),
       "--out-dir",
       join(root, << "pkg" >>),
       "--target",
       "no-modules" >>

BindArgs(root) ==
    << "wasm-bindgen",
       join(root, << "..", "..", "target", "wasm32-unknown-unknown",
                     "release", "gba_rust_wasm.wasm" >>),
       "--out-dir",
       join(root, << "pkg" >>),
       "--target",
       "no-modules" >>

\* variant: the optimized binary is written next to its input
OptArgsCopy(root) ==
    << "wasm-opt",
       join(root, << "pkg", "gba_rust_wasm_bg.wasm" >>),
       "-O4",
       "-o",
       join(root, << "pkg", "gba_rust_wasm_opt.wasm" >>) >>

OptArgs(root) ==
    << "wasm-opt",
       join(root, << "pkg", "gba_rust_wasm_bg.wasm" >>),
       "-O4",
       "-o",
       join(root, << "pkg", "gba_rust_wasm_bg.wasm" >>) >>

\* variant: the optimizer runs before the bindings generator
StageArgsSwapped(i, root) ==
    CASE i = 1 -> CompileArgs
      [] i = 2 -> OptArgs(root)
      [] i = 3 -> BindArgs(root)

StageArgs(i, root) ==
    CASE i = 1 -> CompileArgs
      [] i = 2 -> BindArgs(root)
      [] i = 3 -> OptArgs(root)

\* variant: the optimizer's path is joined once and used twice
JoinsHoisted(i, root) ==
    CASE i = 1 -> <<>>
      [] i = 2 -> << BindArgs(root)[2], BindArgs(root)[4] >>
      [] i = 3 -> << OptArgs(root)[2] >>

\* the results of the os.path.join calls made while the argument list of
\* stage i is evaluated, in order
Joins(i, root) ==
    CASE i = 1 -> <<>>
      [] i = 2 -> << BindArgs(root)[2], BindArgs(root)[4] >>
      [] i = 3 -> << OptArgs(root)[2], OptArgs(root)[5] >>

JoinEvents(i, root) ==
    [k \in 1..Len(Joins(i, root)) |->
        [ev |-> "join", stage |-> i, value |-> Joins(i, root)[k]]]

LastStage == 3

\* the files stage i is run to write: cargo the binary that wasm-bindgen is
\* given, wasm-bindgen the files of --out-dir (the module that wasm-opt is
\* given, and its JavaScript glue), wasm-opt the file after -o
Outputs(i, root) ==
    CASE i = 1 -> { BindArgs(root)[2] }
      [] i = 2 -> { join(BindArgs(root)[4], << "gba_rust_wasm_bg.wasm" >>),
                    join(BindArgs(root)[4], << "gba_rust_wasm.js" >>) }
      [] i = 3 -> { OptArgs(root)[5] }

NoFiles == [p \in {} |-> 0]

\* the files after stage i has written those of w
Written(f, w, i) ==
    [p \in (DOMAIN f) \cup w |-> IF p \in w THEN i ELSE f[p]]

Stages == 1..LastStage

\* variant: the children get RUSTFLAGS set by the script
ChildEnvOverlay(env) ==
    [env EXCEPT !.RUSTFLAGS = "-C target-feature=+bulk-memory,+mutable-globals"]

\* subprocess.run is called without env=: the child gets os.environ
ChildEnv(env) == env

----------------------------------------------------------------------------
(* Control flow *)

NoExc == [type |-> "None"]

NotExited == "running"

\* variant: the exception carries the command of the first stage
CalledProcessErrorOfFirst(rc, cmd) ==
    [type |-> "CalledProcessError", returncode |-> rc, cmd |-> CompileArgs,
     output |-> "None", stderr |-> "None"]

\* raise CalledProcessError(self.returncode, self.args, self.stdout, self.stderr)
\* in CompletedProcess.check_returncode; nothing was captured
CalledProcessError(rc, cmd) ==
    [type |-> "CalledProcessError", returncode |-> rc, cmd |-> cmd,
     output |-> "None", stderr |-> "None"]

\* the OSError subclass that Popen raises
OSError(t, filename) ==
    [type |-> t, filename |-> filename]

\* variant: a child killed by a signal is not taken as a failure
FailedPositive(rc) == rc > 0

\* CompletedProcess.check_returncode raises when returncode is nonzero
Failed(rc) == rc # 0

\* variant: the returncode is not checked
AfterCheckIgnored(i, rc) ==
    IF i < LastStage THEN [at |-> "print", stage |-> i + 1]
    ELSE [at |-> "end", stage |-> i]

\* variant: only the first stage is announced
AfterCheckSilent(i, rc) ==
    IF Failed(rc) THEN [at |-> "raise", stage |-> i]
    ELSE IF i < LastStage THEN [at |-> "run", stage |-> i + 1]
    ELSE [at |-> "end", stage |-> i]

\* variant: a stage that failed is run once more
AfterCheckRetryOnce(i, rc) ==
    IF Failed(rc) /\ Len(calls) = i THEN [at |-> "run", stage |-> i]
    ELSE IF Failed(rc) THEN [at |-> "raise", stage |-> i]
    ELSE IF i < LastStage THEN [at |-> "print", stage |-> i + 1]
    ELSE [at |-> "end", stage |-> i]

\* variant: the returncode of the last stage is not checked
AfterCheckLastUnchecked(i, rc) ==
    IF Failed(rc) /\ i < LastStage THEN [at |-> "raise", stage |-> i]
    ELSE IF i < LastStage THEN [at |-> "print", stage |-> i + 1]
    ELSE [at |-> "end", stage |-> i]

\* where the script goes after check_returncode of stage i
AfterCheck(i, rc) ==
    IF Failed(rc) THEN [at |-> "raise", stage |-> i]
    ELSE IF i < LastStage THEN [at |-> "print", stage |-> i + 1]
    ELSE [at |-> "end", stage |-> i]

\* variant: an OSError of Popen is caught and passed over
AfterSpawnErrorCaught(i) ==
    IF i < LastStage THEN [at |-> "print", stage |-> i + 1]
    ELSE [at |-> "end", stage |-> i]

\* an OSError of Popen is caught nowhere
AfterSpawnError(i) == [at |-> "raise", stage |-> i]

\* the child's chdir(cwd) fails for the empty path
CwdUsable(cwd) == cwd # EmptyPath

\* variant: the child is started and not waited for
AfterWaitDetached(r, i) == r

\* subprocess.run returns only when the child has terminated
AfterWait(r, i) == r \ {i}

----------------------------------------------------------------------------

Init ==
    /\ file \in ScriptFiles
    /\ ambient \in Environments
    /\ environ = ambient
    /\ root_dir = EmptyPath
    /\ pc = [at |-> "init", stage |-> 0]
    /\ stdout = <<>>
    /\ calls = <<>>
    /\ running = {}
    /\ returncode = 0
    /\ exc = NoExc
    /\ stderr = <<>>
    /\ exit_code = NotExited
    /\ fs = NoFiles
    /\ log = <<>>

\* root_dir = os.path.dirname(__file__)
ComputeRoot ==
    /\ pc.at = "init"
    /\ root_dir' = dirname(file)
    /\ pc' = [at |-> "print", stage |-> 1]
    /\ log' = Append(log, [ev |-> "root", stage |-> 0])
    /\ UNCHANGED <<fs, file, ambient, environ, stdout, calls, running,
                   returncode, exc, stderr, exit_code>>

\* variant: all notices are printed before the first stage
EmitNoticeUpFront(i) ==
    /\ pc = [at |-> "print", stage |-> i]
    /\ stdout' = IF i = 1 THEN << Notice(1), Notice(2), Notice(3) >> ELSE stdout
    /\ pc' = [at |-> "run", stage |-> i]
    /\ log' = Append(log, [ev |-> "print", stage |-> i])
    /\ UNCHANGED <<fs, file, ambient, environ, root_dir, calls, running,
                   returncode, exc, stderr, exit_code>>

\* print("now: ...")
EmitNotice(i) ==
    /\ pc = [at |-> "print", stage |-> i]
    /\ stdout' = Append(stdout, Notice(i))
    /\ pc' = [at |-> "run", stage |-> i]
    /\ log' = Append(log, [ev |-> "print", stage |-> i])
    /\ UNCHANGED <<fs, file, ambient, environ, root_dir, calls, running,
                   returncode, exc, stderr, exit_code>>

\* variant: cwd is not passed, the child runs where the script was started
TheCallInherit(i) ==
    [args |-> StageArgs(i, root_dir), cwd |-> [abs |-> FALSE, parts |-> <<".">>],
     env |-> ChildEnv(environ)]

TheCall(i) ==
    [args |-> StageArgs(i, root_dir), cwd |-> root_dir, env |-> ChildEnv(environ)]

\* subprocess.run(...): the arguments are evaluated and the child starts
SpawnOk(i) ==
    /\ pc = [at |-> "run", stage |-> i]
    /\ CwdUsable(root_dir)
    /\ calls' = Append(calls, TheCall(i))
    /\ running' = running \cup {i}
    /\ pc' = [at |-> "wait", stage |-> i]
    /\ log' = log \o JoinEvents(i, root_dir)
                   \o << [ev |-> "args", stage |-> i], [ev |-> "spawn", stage |-> i] >>
    /\ UNCHANGED <<fs, file, ambient, environ, root_dir, stdout,
                   returncode, exc, stderr, exit_code>>

\* subprocess.run(...): the arguments are evaluated and Popen raises OSError:
\* the program is not found or not executable, or chdir(cwd) fails in the
\* child; the exception's filename is the program, or cwd when chdir failed
SpawnFail(i) ==
    /\ pc = [at |-> "run", stage |-> i]
    /\ calls' = Append(calls, TheCall(i))
    /\ \E t \in OSErrors :
         /\ ~CwdUsable(root_dir) => t = "FileNotFoundError"
         /\ exc' = OSError(t, IF CwdUsable(root_dir)
                               THEN StageArgs(i, root_dir)[1] ELSE root_dir)
    /\ pc' = AfterSpawnError(i)
    /\ log' = log \o JoinEvents(i, root_dir)
                   \o << [ev |-> "args", stage |-> i], [ev |-> "spawnfail", stage |-> i] >>
    /\ UNCHANGED <<fs, file, ambient, environ, root_dir, stdout, running,
                   returncode, stderr, exit_code>>

\* the child terminates and subprocess.run returns a CompletedProcess; a
\* child that exits with status 0 has written its outputs, one that fails
\* may have written any of them
ChildExit(i) ==
    /\ pc = [at |-> "wait", stage |-> i]
    /\ i \in running
    /\ \E s \in ExitStatuses :
         /\ returncode' = s
         /\ log' = Append(log, [ev |-> "exit", stage |-> i, status |-> s])
         /\ \E w \in SUBSET Outputs(i, root_dir) :
                /\ s = 0 => w = Outputs(i, root_dir)
                /\ fs' = Written(fs, w, i)
    /\ running' = AfterWait(running, i)
    /\ pc' = [at |-> "check", stage |-> i]
    /\ UNCHANGED <<file, ambient, environ, root_dir, stdout, calls,
                   exc, stderr, exit_code>>

\* .check_returncode()
CheckReturncode(i) ==
    /\ pc = [at |-> "check", stage |-> i]
    /\ pc' = AfterCheck(i, returncode)
    /\ exc' = IF pc'.at = "raise"
              THEN CalledProcessError(returncode, calls[Len(calls)].args)
              ELSE exc
    /\ UNCHANGED <<fs, file, ambient, environ, root_dir, stdout, calls, running,
                   returncode, stderr, exit_code, log>>

\* variant: on failure the script removes what the run has written
UncaughtExceptionCleanup ==
    /\ pc.at = "raise"
    /\ stderr' = Append(stderr, exc)
    /\ exit_code' = 1
    /\ fs' = NoFiles
    /\ pc' = [at |-> "exited", stage |-> pc.stage]
    /\ UNCHANGED <<file, ambient, environ, root_dir, stdout, calls, running,
                   returncode, exc, log>>

\* an exception reaches the top level: the interpreter prints the traceback
\* and the process exits with status 1
UncaughtException ==
    /\ pc.at = "raise"
    /\ stderr' = Append(stderr, exc)
    /\ exit_code' = 1
    /\ pc' = [at |-> "exited", stage |-> pc.stage]
    /\ UNCHANGED <<fs, file, ambient, environ, root_dir, stdout, calls, running,
                   returncode, exc, log>>

\* the script runs off its end: the process exits with status 0
ExitNormally ==
    /\ pc.at = "end"
    /\ exit_code' = 0
    /\ pc' = [at |-> "exited", stage |-> pc.stage]
    /\ UNCHANGED <<fs, file, ambient, environ, root_dir, stdout, calls, running,
                   returncode, exc, stderr, log>>

Next ==
    \/ ComputeRoot
    \/ \E i \in Stages : EmitNotice(i)
    \/ \E i \in Stages : SpawnOk(i)
    \/ \E i \in Stages : SpawnFail(i)
    \/ \E i \in Stages : ChildExit(i)
    \/ \E i \in Stages : CheckReturncode(i)
    \/ UncaughtException
    \/ ExitNormally

Spec == Init /\ [][Next]_vars

\* the interpreter keeps executing the script, which is sequential, and
\* every child that was started terminates
FairSpec == Spec /\ WF_vars(Next)

----------------------------------------------------------------------------
(* Reading the history *)

Events == 1..Len(log)

IsExit(k) == log[k].ev = "exit"

IsFailedExit(k) == IsExit(k) /\ log[k].status # 0

IsGoodExit(k) == IsExit(k) /\ log[k].status = 0

\* subprocess.run was called for a stage: its arguments were evaluated
IsAttempt(k) == log[k].ev = "args"

IsSpawn(k) == log[k].ev = "spawn"

IsSpawnFail(k) == log[k].ev = "spawnfail"

IsNotice(k) == log[k].ev = "print"

Exited == pc.at = "exited"

\* the stages whose child has been started, in order
RECURSIVE SpawnedUpTo(_)
SpawnedUpTo(k) ==
    IF k = 0 THEN <<>>
    ELSE IF IsSpawn(k) THEN Append(SpawnedUpTo(k - 1), log[k].stage)
    ELSE SpawnedUpTo(k - 1)

Spawned == SpawnedUpTo(Len(log))

AllSucceeded ==
    /\ Spawned = <<1, 2, 3>>
    /\ \A i \in Stages : \E k \in Events : IsGoodExit(k) /\ log[k].stage = i
    /\ \A k \in Events : ~IsFailedExit(k) /\ ~IsSpawnFail(k)

----------------------------------------------------------------------------
(* C1: fail-fast.  Once the child of stage i has ended with a nonzero exit *)
(* status, no later stage is invoked: subprocess.run is never called for a *)
(* stage j > i, no child of such a stage is started, and at most i calls   *)
(* have been made.                                                         *)
C1_FailFast ==
    \A k \in Events :
        IsFailedExit(k) =>
            /\ \A m \in Events :
                   (IsAttempt(m) \/ IsSpawn(m) \/ IsSpawnFail(m))
                       => log[m].stage <= log[k].stage
            /\ Len(calls) <= log[k].stage
            /\ \A j \in Stages : j > log[k].stage => j \notin running

\* stage 2 has failed, the script has ended, stage 3 was never invoked
C1_Witness ==
    /\ Exited
    /\ \E k \in Events : IsFailedExit(k) /\ log[k].stage = 2
    /\ Len(calls) = 2
    /\ Spawned = <<1, 2>>

(* C2: the script's exit code is 0 if and only if all three stages were    *)
(* invoked and each child exited with status 0; otherwise it is nonzero.   *)
C2_ExitCodeZeroIffAllSucceeded ==
    Exited => /\ exit_code \in Int
              /\ (exit_code = 0 <=> AllSucceeded)

\* a run that ended with exit code 0 after three children
C2_Witness ==
    /\ Exited
    /\ exit_code = 0
    /\ Len(calls) = 3

(* C3: stages run in the order compile, bind, optimize, one at a time: a   *)
(* child of stage i+1 is started only after the child of stage i has       *)
(* terminated with status 0, every child started earlier has terminated,   *)
(* and never are two children running.                                     *)
C3_Sequential ==
    /\ Cardinality(running) <= 1
    /\ \A k \in Events :
           IsSpawn(k) =>
               /\ log[k].stage = Len(SpawnedUpTo(k))
               /\ log[k].stage > 1 =>
                      \E m \in 1..(k - 1) :
                          IsGoodExit(m) /\ log[m].stage = log[k].stage - 1
               /\ \A m \in 1..(k - 1) :
                      IsSpawn(m) =>
                          \E n \in (m + 1)..(k - 1) :
                              IsExit(n) /\ log[n].stage = log[m].stage

\* the child of the third stage is running, alone
C3_Witness ==
    /\ pc = [at |-> "wait", stage |-> 3]
    /\ running = {3}
    /\ Spawned = <<1, 2, 3>>

(* C4: when the program of a stage cannot be started, nothing more is      *)
(* attempted: the failed call is the last one, no later stage is attempted *)
(* and the script exits with a nonzero code.                               *)
C4_SpawnFailureHalts ==
    \A k \in Events :
        IsSpawnFail(k) =>
            /\ k = Len(log)
            /\ Len(calls) = log[k].stage
            /\ \A m \in Events :
                   (IsAttempt(m) \/ IsSpawn(m) \/ IsSpawnFail(m) \/ IsNotice(m))
                       => log[m].stage <= log[k].stage
            /\ running = {}
            /\ pc.at \in {"raise", "exited"}
            /\ Exited => exit_code # 0

\* cargo could not be started; the script has ended after that one call
C4_Witness ==
    /\ Exited
    /\ exit_code = 1
    /\ \E k \in Events : IsSpawnFail(k) /\ log[k].stage = 1
    /\ Len(calls) = 1
    /\ calls[1].args[1] = "cargo"
    /\ CwdUsable(root_dir)

----------------------------------------------------------------------------
(* Reading paths: os.path.normpath, and "p lies under the directory d" *)

\* one step of os.path.normpath's loop over the components
NormStep(abs, new, comp) ==
    IF comp = "." THEN new
    ELSE IF \/ comp # ".."
            \/ (~abs /\ new = <<>>)
            \/ (new # <<>> /\ new[Len(new)] = "..")
         THEN Append(new, comp)
    ELSE IF new # <<>> THEN SubSeq(new, 1, Len(new) - 1)
    ELSE new

RECURSIVE NormParts(_, _, _)
NormParts(abs, new, comps) ==
    IF comps = <<>> THEN new
    ELSE NormParts(abs, NormStep(abs, new, Head(comps)), Tail(comps))

normpath(p) == [abs |-> p.abs, parts |-> NormParts(p.abs, <<>>, p.parts)]

IsUnder(p, d) ==
    LET np == normpath(p)
        nd == normpath(d)
    IN  /\ np.abs = nd.abs
        /\ Len(nd.parts) < Len(np.parts)
        /\ SubSeq(np.parts, 1, Len(nd.parts)) = nd.parts

\* the first stage that failed, 0 when none has
FirstFailing ==
    IF \E k \in Events : IsFailedExit(k) \/ IsSpawnFail(k)
    THEN log[CHOOSE k \in Events :
                 /\ IsFailedExit(k) \/ IsSpawnFail(k)
                 /\ \A m \in 1..(k - 1) : ~(IsFailedExit(m) \/ IsSpawnFail(m))].stage
    ELSE 0

FailedRun == Exited /\ exit_code # 0

Report == stderr[Len(stderr)]

----------------------------------------------------------------------------
(* C5, as claimed: when a run fails, the failure report identifies the     *)
(* first failing stage by its program name, by its ordinal position in the *)
(* pipeline and by its exit code.                                          *)
C5_ReportHasNameOrdinalExitCode ==
    FailedRun =>
        /\ Len(stderr) = 1
        /\ "cmd" \in DOMAIN Report
        /\ Report.cmd[1] = calls[FirstFailing].args[1]
        /\ "returncode" \in DOMAIN Report
        /\ "ordinal" \in DOMAIN Report
        /\ Report.ordinal = FirstFailing

(* C5, amended: when a run fails, exactly one exception is reported, that  *)
(* of the first failing stage, and it carries no ordinal position.  For a  *)
(* child that exited nonzero it is a CalledProcessError carrying that      *)
(* stage's whole command (program name first) and its exit status; for a   *)
(* child that could not be started it is an OSError carrying the file name *)
(* that failed (the program, or the working directory) and no exit status. *)
C5_ReportOfFirstFailingStage ==
    FailedRun =>
        /\ Len(stderr) = 1
        /\ FirstFailing \in Stages
        /\ FirstFailing = Len(calls)
        /\ "ordinal" \notin DOMAIN Report
        /\ Report.type = "CalledProcessError" =>
               /\ \E k \in Events :
                      /\ IsFailedExit(k)
                      /\ log[k].stage = FirstFailing
                      /\ Report.returncode = log[k].status
               /\ Report.cmd = calls[FirstFailing].args
               /\ Report.cmd[1] = <<"cargo", "wasm-bindgen", "wasm-opt">>[FirstFailing]
        /\ Report.type # "CalledProcessError" =>
               /\ Report.type \in OSErrors
               /\ \E k \in Events : IsSpawnFail(k) /\ log[k].stage = FirstFailing
               /\ "returncode" \notin DOMAIN Report
               /\ IF CwdUsable(root_dir)
                  THEN Report.filename = <<"cargo", "wasm-bindgen", "wasm-opt">>[FirstFailing]
                  ELSE Report.filename = calls[FirstFailing].cwd

\* wasm-bindgen exited with status 2 and the script has reported it
C5_Witness ==
    /\ FailedRun
    /\ FirstFailing = 2
    /\ Report.type = "CalledProcessError"
    /\ Report.returncode = 2
    /\ Report.cmd[1] = "wasm-bindgen"

(* C6: the programs invoked in a run are always a prefix of cargo,         *)
(* wasm-bindgen, wasm-opt: never more than three, never in another order,  *)
(* none twice; a run that succeeds has invoked exactly these three.        *)
C6_ThreeStagesInOrder ==
    /\ Len(calls) <= 3
    /\ \A k \in 1..Len(calls) :
           calls[k].args[1] = <<"cargo", "wasm-bindgen", "wasm-opt">>[k]
    /\ Len(Spawned) <= Len(calls)
    /\ \A k \in 1..Len(Spawned) : Spawned[k] = k
    /\ (Exited /\ exit_code = 0) => (Len(calls) = 3 /\ Len(Spawned) = 3)

\* a successful run: three children, wasm-opt the last
C6_Witness ==
    /\ Exited
    /\ exit_code = 0
    /\ Len(Spawned) = 3
    /\ calls[3].args[1] = "wasm-opt"

(* C7: before each stage that is executed a notice naming that stage is    *)
(* printed: the notice of stage i comes before subprocess.run is called    *)
(* for stage i, and after the child of stage i-1 has exited with status 0. *)
C7_NoticeBeforeStage ==
    \A k \in Events :
        IsAttempt(k) =>
            \E m \in 1..(k - 1) :
                /\ IsNotice(m)
                /\ log[m].stage = log[k].stage
                /\ stdout[log[k].stage] =
                       << "now: rustc compilation", "now: wasm-bindgen pass",
                          "now: wasm-opt pass" >>[log[k].stage]
                /\ log[k].stage > 1 =>
                       \E n \in 1..(m - 1) :
                           IsGoodExit(n) /\ log[n].stage = log[k].stage - 1

\* the optimizer's child is running and its notice is the third one printed
C7_Witness ==
    /\ pc = [at |-> "wait", stage |-> 3]
    /\ Len(stdout) = 3
    /\ stdout[3] = "now: wasm-opt pass"

(* C8, as claimed: the bind stage's input path is derived from root_dir    *)
(* and lies under root_dir/target/wasm32-unknown-unknown/release/.         *)
C8_BindInputUnderRootTarget ==
    Len(calls) >= 2 =>
        IsUnder(calls[2].args[2],
                join(root_dir, <<"target", "wasm32-unknown-unknown", "release">>))

(* C8, amended: the bind stage's input path is root_dir plus the fixed     *)
(* suffix ../../target/<triple>/release/gba_rust_wasm.wasm, where <triple> *)
(* is the compile stage's --target argument: it lies under the target      *)
(* directory two levels above root_dir, and the compile stage itself       *)
(* declares no output path.                                                *)
C8_BindInputUnderWorkspaceTarget ==
    Len(calls) >= 2 =>
        LET triple == calls[1].args[5]
            input == calls[2].args[2]
        IN  /\ calls[1].args[4] = "--target"
            /\ Len(calls[1].args) = 5
            /\ input = join(root_dir, << "..", "..", "target", triple,
                                         "release", "gba_rust_wasm.wasm" >>)
            /\ IsUnder(input, join(root_dir, << "..", "..", "target", triple,
                                                "release" >>))
            /\ input.parts[Len(input.parts)] = "gba_rust_wasm.wasm"

\* wasm-bindgen was called by the script /proj/frontend/build.py
C8_Witness ==
    /\ Len(calls) >= 2
    /\ root_dir = [abs |-> TRUE, parts |-> <<"proj", "frontend">>]
    /\ normpath(calls[2].args[2]) =
           [abs |-> TRUE,
            parts |-> << "target", "wasm32-unknown-unknown", "release",
                         "gba_rust_wasm.wasm" >>]

C10_OptimizeInPlace ==
    Len(calls) >= 3 =>
        LET args == calls[3].args
            outputDir == calls[2].args[4]
        IN  /\ Len(args) = 5
            /\ args[1] = "wasm-opt"
            /\ args[3] = "-O4"
            /\ args[4] = "-o"
            /\ args[2] = args[5]
            /\ calls[2].args[3] = "--out-dir"
            /\ args[2] = join(outputDir, <<"gba_rust_wasm_bg.wasm">>)

\* wasm-opt was called by ./build.py, to rewrite ./pkg/gba_rust_wasm_bg.wasm
C10_Witness ==
    /\ Len(calls) = 3
    /\ root_dir = [abs |-> FALSE, parts |-> <<".">>]
    /\ calls[3].args[5] =
           [abs |-> FALSE, parts |-> <<".", "pkg", "gba_rust_wasm_bg.wasm">>]

----------------------------------------------------------------------------
(* The four paths, as functions of root_dir *)

IsJoin(k) == log[k].ev = "join"

IsRoot(k) == log[k].ev = "root"

targetArtifact ==
    join(root_dir, << "..", "..", "target", "wasm32-unknown-unknown",
                      "release", "gba_rust_wasm.wasm" >>)

outputDir == join(root_dir, << "pkg" >>)

bridgedArtifact == join(root_dir, << "pkg", "gba_rust_wasm_bg.wasm" >>)

\* the paths joined for stage i, in the order of their computation
RECURSIVE JoinedUpTo(_, _)
JoinedUpTo(i, k) ==
    IF k = 0 THEN <<>>
    ELSE IF IsJoin(k) /\ log[k].stage = i
         THEN Append(JoinedUpTo(i, k - 1), log[k].value)
    ELSE JoinedUpTo(i, k - 1)

Joined(i) == JoinedUpTo(i, Len(log))

Attempted(i) == \E k \in Events : IsAttempt(k) /\ log[k].stage = i

(* C11, as claimed: every path is computed once, before the first child is *)
(* started, and none is computed after a stage has begun executing.        *)
C11_PathsComputedOnceUpFront ==
    /\ \A k \in Events :
           (IsRoot(k) \/ IsJoin(k)) => \A m \in 1..(k - 1) : ~IsSpawn(m)
    /\ \A k, m \in Events :
           (IsJoin(k) /\ IsJoin(m) /\ log[k].value = log[m].value) => k = m

(* C11, amended: only root_dir is computed once, before the first child is *)
(* started, and it is never assigned again.  targetArtifact and outputDir  *)
(* are joined once each while the bind stage's arguments are evaluated,    *)
(* after the compile stage's child has exited with status 0, and           *)
(* bridgedArtifact is joined twice while the optimize stage's arguments    *)
(* are evaluated, after the bind stage's child has exited with status 0;   *)
(* each join gives the value that root_dir determines.                     *)
C11_PathsJoinedPerStage ==
    /\ \A k \in Events : IsRoot(k) <=> k = 1
    /\ pc.at # "init" => root_dir = dirname(file)
    /\ Joined(1) = <<>>
    /\ Joined(2) = IF Attempted(2) THEN << targetArtifact, outputDir >> ELSE <<>>
    /\ Joined(3) = IF Attempted(3) THEN << bridgedArtifact, bridgedArtifact >>
                   ELSE <<>>
    /\ \A k \in Events :
           IsJoin(k) =>
               /\ \E m \in 1..(k - 1) :
                      IsGoodExit(m) /\ log[m].stage = log[k].stage - 1
               /\ \A m \in 1..(k - 1) : IsSpawn(m) => log[m].stage < log[k].stage

\* the optimizer has been called: four joins, all after cargo had run
C11_Witness ==
    /\ Len(calls) = 3
    /\ Len(Joined(2)) = 2
    /\ Len(Joined(3)) = 2
    /\ \E k \in Events : IsJoin(k) /\ \E m \in 1..(k - 1) : IsSpawn(m)

----------------------------------------------------------------------------
IsFailure(k) == IsFailedExit(k) \/ IsSpawnFail(k)

Times(i, ev) == Cardinality({k \in Events : log[k].ev = ev /\ log[k].stage = i})

(* C12: no retry.  In any run subprocess.run is called at most once for    *)
(* each stage and at most one child per stage is started; after a stage    *)
(* has failed, by a nonzero exit or by a spawn failure, no call follows.   *)
C12_NoRetry ==
    /\ \A i \in Stages :
           /\ Times(i, "args") <= 1
           /\ Times(i, "spawn") + Times(i, "spawnfail") <= 1
           /\ Times(i, "exit") <= 1
    /\ \A k \in Events :
           IsFailure(k) =>
               \A m \in (k + 1)..Len(log) : ~(IsAttempt(m) \/ IsSpawn(m))

\* wasm-opt could not be started; each stage was called exactly once
C12_Witness ==
    /\ Exited
    /\ \E k \in Events : IsSpawnFail(k) /\ log[k].stage = 3
    /\ \A i \in Stages : Times(i, "args") = 1

\* stage k failed, the stages before it succeeded, those after it never ran
FailedAt(k) ==
    /\ \E e \in Events : IsFailure(e) /\ log[e].stage = k
    /\ \A j \in 1..(k - 1) :
           /\ Times(j, "spawn") = 1
           /\ \E e \in Events : IsGoodExit(e) /\ log[e].stage = j
    /\ \A j \in (k + 1)..LastStage :
           /\ ~Attempted(j)
           /\ Times(j, "spawn") = 0
           /\ Times(j, "print") = 0

(* C13: given that every child terminates, every run ends, and it ends in  *)
(* exactly one of two ways: all three stages exited with status 0 (exit    *)
(* code 0), or the run failed at exactly one stage k, with the stages      *)
(* before k succeeded and the stages after k never run (exit code not 0).  *)
C13_TerminatesFullyOrFailedAtOneStage ==
    /\ <>Exited
    /\ [](Exited =>
             \/ /\ exit_code = 0
                /\ AllSucceeded
                /\ \A k \in Stages : ~FailedAt(k)
             \/ /\ exit_code # 0
                /\ ~AllSucceeded
                /\ Cardinality({k \in Stages : FailedAt(k)}) = 1
                /\ \A e \in Events : IsFailure(e) => FailedAt(log[e].stage))

\* a run that ended failed at the bind stage, killed by a signal
C13_Witness ==
    /\ Exited
    /\ FailedAt(2)
    /\ returncode < 0
    /\ exit_code = 1

----------------------------------------------------------------------------
HasFailed == \E k \in Events : IsFailure(k)

\* what stage j wrote is still as stage j wrote it
AsProducedBy(j, p) == p \in DOMAIN fs /\ fs[p] = j

(* C14, as claimed: when stage i has failed, the files written by the      *)
(* stages 1..i-1 are exactly as those stages produced them.                *)
C14_EarlierArtifactsAsProduced ==
    \A k \in Events :
        IsFailure(k) =>
            \A j \in 1..(log[k].stage - 1) :
                \A p \in Outputs(j, root_dir) : AsProducedBy(j, p)

(* C14, amended: no rollback.  The script itself never writes or removes a *)
(* file, only children do, while they run; once a stage has failed the     *)
(* files never change again.  What the stages 1..i-1 wrote is then as they *)
(* produced it, except for a file that is also an output of the failed     *)
(* stage i: the optimize stage rewrites the bind stage's module in place,  *)
(* and when it fails that file is as the failed child left it.             *)
C14_NoRollback ==
    /\ [][ /\ fs' # fs => pc.at = "wait"
           /\ HasFailed => fs' = fs ]_vars
    /\ [](\A k \in Events :
              IsFailure(k) =>
                  \A j \in 1..(log[k].stage - 1) :
                      \A p \in Outputs(j, root_dir) \ Outputs(log[k].stage, root_dir) :
                          AsProducedBy(j, p))

\* wasm-opt has failed and the script has ended: cargo's binary and the
\* glue of wasm-bindgen are in place, the module is as wasm-opt left it
C14_Witness ==
    /\ Exited
    /\ FailedAt(3)
    /\ AsProducedBy(1, targetArtifact)
    /\ AsProducedBy(2, join(outputDir, << "gba_rust_wasm.js" >>))
    /\ AsProducedBy(3, bridgedArtifact)

----------------------------------------------------------------------------
(* C15: the bind stage is always called with --out-dir root_dir/pkg and    *)
(* --target no-modules, and the optimize stage's input is the file         *)
(* gba_rust_wasm_bg.wasm directly inside that directory: when the          *)
(* optimizer is started, that file is the one the bind stage has written.  *)
C15_OptimizerReadsBindOutput ==
    /\ Len(calls) >= 2 =>
           LET args == calls[2].args
           IN  /\ Len(args) = 6
               /\ args[1] = "wasm-bindgen"
               /\ args[3] = "--out-dir"
               /\ args[4] = join(root_dir, << "pkg" >>)
               /\ dirname(args[4]) = root_dir
               /\ args[5] = "--target"
               /\ args[6] = "no-modules"
    /\ Len(calls) >= 3 =>
           LET input == calls[3].args[2]
           IN  /\ dirname(input) = calls[2].args[4]
               /\ input.parts[Len(input.parts)] = "gba_rust_wasm_bg.wasm"
               /\ 3 \in running => AsProducedBy(2, input)

\* wasm-opt runs on /proj/frontend/pkg/gba_rust_wasm_bg.wasm
C15_Witness ==
    /\ 3 \in running
    /\ calls[2].args[4] = [abs |-> TRUE, parts |-> <<"proj", "frontend", "pkg">>]
    /\ calls[3].args[2] =
           [abs |-> TRUE, parts |-> <<"proj", "frontend", "pkg", "gba_rust_wasm_bg.wasm">>]

(* C16: every stage that is invoked is given the working directory         *)
(* root_dir, the directory of the script computed at the start of the run, *)
(* and root_dir is never assigned again.                                   *)
C16_WorkingDirectoryIsRootDir ==
    /\ [](/\ pc.at # "init" => root_dir = dirname(file)
          /\ \A k \in 1..Len(calls) : calls[k].cwd = dirname(file)
          /\ Times(0, "root") <= 1)
    /\ [][pc.at # "init" => root_dir' = root_dir]_vars

\* all three children were started in /proj/frontend
C16_Witness ==
    /\ Spawned = <<1, 2, 3>>
    /\ file = [abs |-> TRUE, parts |-> <<"proj", "frontend", "build.py">>]
    /\ \A k \in 1..3 : calls[k].cwd = [abs |-> TRUE, parts |-> <<"proj", "frontend">>]

(* C18, as claimed: in every reachable state the number of notices printed *)
(* equals the number of stages attempted so far.                           *)
C18_NoticesEqualAttempts ==
    Len(stdout) = Len(calls)

(* C18, amended: the number of notices printed equals the number of stages *)
(* attempted, except between the notice of a stage and the subprocess.run  *)
(* call of that stage, when there is one notice more; when the script has  *)
(* ended they are equal, and no notice is ever printed for a stage that is *)
(* skipped because an earlier stage failed.                                *)
C18_NoticesTrackAttempts ==
    /\ Len(stdout) = Len(calls) + (IF pc.at = "run" THEN 1 ELSE 0)
    /\ Exited => Len(stdout) = Len(calls)
    /\ \A k \in Events :
           IsNotice(k) =>
               /\ Attempted(log[k].stage) \/ pc = [at |-> "run", stage |-> log[k].stage]
               /\ \A m \in 1..(k - 1) : ~IsFailure(m)

\* cargo has failed and the script has ended: one notice, one attempt
C18_Witness ==
    /\ Exited
    /\ FailedAt(1)
    /\ stdout = << "now: rustc compilation" >>
    /\ Len(calls) = 1

====
